---- MODULE Spec2Model ----
(***************************************************************************)
(* Task board backend: tasks with embedded time-tracking sessions          *)
(* (src/src/controllers/taskController.js, src/src/models/Task.js) and     *)
(* sections/containers (src/unnamed/part_000, the section controller;      *)
(* src/unnamed/part_007, the CustomSection schema;                         *)
(* src/src/utils/seedDefaultSections.js).                                  *)
(*                                                                         *)
(* A JavaScript object is a function whose DOMAIN is the set of the        *)
(* properties it has: an undefined property is one that is not in the      *)
(* DOMAIN.  Time is counted in whole seconds (dayjs diff "second").        *)
(*                                                                         *)
(* startTimeTracking and stopTimeTracking are split at their awaits, so    *)
(* that requests interleave between the reads and the save.  The other     *)
(* handlers are one action each.                                           *)
(***************************************************************************)
EXTENDS Integers, Sequences, FiniteSets, TLC

VARIABLES
    tasks,        \* the Task collection: task id -> stored document
    taskSeq,      \* number of task ids handed out so far (ids are not reused)
    sections,     \* the CustomSection collection: section id -> stored document
    secSeq,       \* number of section ids handed out so far
    seeded,       \* history: ids of the sections inserted by seedDefaultSections
    now,          \* the clock, in seconds
    strictQuery,  \* build option of the mongoose in use (not fixed by the source)
    req,          \* per request slot: the start/stop request in flight
    last          \* the answer given by the last step, if it gave one

vars == <<tasks, taskSeq, sections, secSeq, seeded, now, strictQuery, req, last>>

(* ------------------------------ bounds --------------------------------- *)
MaxTime == 1
MaxSessions == 3
MaxCustom == 1

Users == {"u1", "u2"}
TaskIds == {1, 2}
Procs == {"p1", "p2"}

(* ------------------------- Task schema (Task.js) ----------------------- *)

\* Paths of a timeTracking element the schema declares.  userId is not one.
SessionPaths == {"startTime", "endTime", "duration", "isActive"}

\* Casting an object to a timeTracking subdocument: strict mode drops the
\* properties that are not schema paths, defaults fill duration and isActive.
\* startedBy is a history property (who issued the start); nothing reads it.
SessionCast(obj) ==
    [f \in ((DOMAIN obj) \cap (SessionPaths \cup {"startedBy"}))
             \cup {"duration", "isActive"} |->
        IF f \in DOMAIN obj THEN obj[f]
        ELSE IF f = "duration" THEN 0 ELSE FALSE]

\* Top-level paths of a task that a write persists.  timeTracked is not
\* declared by the schema, so no write stores it.
TaskPaths == {"title", "description", "priority", "dueDate", "createdBy", "assignees",
              "containerId", "status", "sortIndex", "timeTracking"}

\* What a reader gets for task.timeTracked || 0.
TimeTrackedOf(doc) == IF "timeTracked" \in DOMAIN doc THEN doc.timeTracked ELSE 0

CountActive(tt) == Cardinality({i \in 1..Len(tt) : tt[i].isActive})

\* pre("save") hook: error when more than one element of the document being
\* saved is active.
PreSaveOk(doc) == ~(Len(doc.timeTracking) > 0 /\ CountActive(doc.timeTracking) > 1)

(* --------------------- helpers of taskController.js -------------------- *)

\* Mutant: no authorization check.
IsAuthorized_Anyone(task, u) == TRUE

\* task.createdBy == requester || task.assignees.some(== requester)
IsAuthorized(task, u) == task.createdBy = u \/ u \in task.assignees

\* The first active element, whoever it belongs to.
RECURSIVE FindActiveFrom_AnyUser(_, _, _)
FindActiveFrom_AnyUser(tt, u, i) ==
    IF i > Len(tt) THEN [threw |-> FALSE, idx |-> 0]
    ELSE IF tt[i].isActive THEN [threw |-> FALSE, idx |-> i]
    ELSE FindActiveFrom_AnyUser(tt, u, i + 1)

\* Array.find / findIndex with the callback
\*   session.isActive && session.userId.toString() === requester
\* evaluated element by element from index i: an active element without
\* userId makes .toString() throw a TypeError.  idx = 0 means not found.
RECURSIVE FindActiveFrom(_, _, _)
FindActiveFrom(tt, u, i) ==
    IF i > Len(tt) THEN [threw |-> FALSE, idx |-> 0]
    ELSE IF ~tt[i].isActive THEN FindActiveFrom(tt, u, i + 1)
    ELSE IF "userId" \notin DOMAIN tt[i] THEN [threw |-> TRUE, idx |-> 0]
    ELSE IF tt[i].userId = u THEN [threw |-> FALSE, idx |-> i]
    ELSE FindActiveFrom(tt, u, i + 1)

\* Mutant: the search does not look at whose session it is.
FindActive_AnyUser(tt, u) == FindActiveFrom_AnyUser(tt, u, 1)

\* The search over a whole timeTracking array.
FindActive(tt, u) == FindActiveFrom(tt, u, 1)

\* The filter of getUserActiveSessions on one stored task: visible to the
\* user, some element active, some element with userId = user (the two need
\* not be the same element).  With strictQuery the condition on the
\* undeclared path timeTracking.userId is removed from the filter.
ActiveQueryMatches(db, t, u, sq) ==
    /\ IsAuthorized(db[t], u)
    /\ \E i \in 1..Len(db[t].timeTracking) : db[t].timeTracking[i].isActive
    /\ \/ sq
       \/ \E i \in 1..Len(db[t].timeTracking) :
              /\ "userId" \in DOMAIN db[t].timeTracking[i]
              /\ db[t].timeTracking[i].userId = u

\* getUserActiveSessions: the tasks in which the user's active session is
\* found among the matching tasks; threw when the scan of a matching task
\* throws.
GetUserActiveSessions(db, u, sq) ==
    LET matched == {t \in DOMAIN db : ActiveQueryMatches(db, t, u, sq)}
    IN  [threw |-> \E t \in matched : FindActive(db[t].timeTracking, u).threw,
         found |-> {t \in matched : FindActive(db[t].timeTracking, u).idx # 0}]

(* ------------------------------ requests ------------------------------- *)

NoTasks == [t \in {} |-> 0]

\* A free request slot.  clean and pre are history: pre is the Task
\* collection when the request arrived, clean says that no other request
\* has written since.
Idle == [pc |-> "idle", op |-> "none", user |-> "none", task |-> 0, container |-> 0,
         doc |-> NoTasks, delta |-> NoTasks, clean |-> FALSE, pre |-> NoTasks]

\* result is the list of task ids a listing returns, count the
\* modifiedCount of a bulk write.
NoAnswer == [op |-> "none", user |-> "none", id |-> 0, status |-> 0,
             active |-> {}, clean |-> FALSE, pre |-> NoTasks,
             result |-> << >>, count |-> 0]

\* The answer of a single-step handler.
Direct(o, u, i, code) ==
    [op |-> o, user |-> u, id |-> i, status |-> code,
     active |-> {}, clean |-> TRUE, pre |-> NoTasks,
     result |-> << >>, count |-> 0]

\* The answer of a start or stop request r.
Reply(r, code, act) ==
    [op |-> r.op, user |-> r.user, id |-> r.task, status |-> code,
     active |-> act, clean |-> r.clean, pre |-> r.pre,
     result |-> << >>, count |-> 0]

\* A write by slot p ("none": by a single-step handler): the requests in
\* flight in the other slots no longer run alone.
Disturb(r, p) ==
    [q \in Procs |->
        IF q = p \/ r[q].pc = "idle" THEN r[q]
        ELSE [r[q] EXCEPT !.clean = FALSE, !.pre = NoTasks]]

Init ==
    /\ tasks = NoTasks
    /\ taskSeq = 0
    /\ sections = NoTasks
    /\ secSeq = 0
    /\ seeded = {}
    /\ now = 0
    /\ strictQuery \in BOOLEAN
    /\ req = [p \in Procs |-> Idle]
    /\ last = NoAnswer

Tick ==
    /\ now < MaxTime
    /\ now' = now + 1
    /\ last' = NoAnswer
    /\ UNCHANGED <<tasks, taskSeq, sections, secSeq, seeded, strictQuery, req>>

(* --------------------------- task handlers ----------------------------- *)

\* validateStatus(userId, statusId): "true", "false", or "throw" when
\* .toString() is called on an undefined createdBy or userId.  hasUser is
\* FALSE when the caller passes an undefined userId.
ValidateStatus(secs, hasUser, userId, hasId, statusId) ==
    IF ~hasId \/ statusId \notin DOMAIN secs THEN "false"
    ELSE IF secs[statusId].isDefault THEN "true"
    ELSE IF "createdBy" \notin DOMAIN secs[statusId] \/ ~hasUser THEN "throw"
    ELSE IF secs[statusId].createdBy = userId THEN "true"
    ELSE "false"

\* The answer of createTask for a request body: the container is validated
\* only when the body has a status, and against the body's createdBy; title,
\* containerId and createdBy are required by the schema.
CreateTaskStatus(secs, body) ==
    LET v == ValidateStatus(secs, "createdBy" \in DOMAIN body,
                            IF "createdBy" \in DOMAIN body THEN body.createdBy ELSE "none",
                            "containerId" \in DOMAIN body,
                            IF "containerId" \in DOMAIN body THEN body.containerId ELSE 0)
    IN  IF "status" \in DOMAIN body /\ v = "throw" THEN 500
        ELSE IF "status" \in DOMAIN body /\ v = "false" THEN 400
        ELSE IF {"title", "containerId", "createdBy"} \subseteq DOMAIN body THEN 201
        ELSE 400

\* The document Task.create stores for a body.
NewTask(body) ==
    [f \in {"title", "priority", "createdBy", "containerId", "status", "assignees",
            "timeTracking"}
           \cup ({"sortIndex", "description", "dueDate"} \cap DOMAIN body) |->
        CASE f = "status" -> IF "status" \in DOMAIN body THEN body.status ELSE "Open"
          [] f = "priority" -> IF "priority" \in DOMAIN body THEN body.priority ELSE "Normal"
          [] f = "assignees" -> IF "assignees" \in DOMAIN body THEN body.assignees ELSE {}
          [] f = "timeTracking" -> << >>
          [] OTHER -> body[f]]

CreateTask(u, body) ==
    /\ taskSeq + 1 \in TaskIds
    /\ LET code == CreateTaskStatus(sections, body)
       IN  /\ last' = Direct("createTask", u, taskSeq + 1, code)
           /\ IF code = 201
              THEN /\ tasks' = (taskSeq + 1 :> NewTask(body)) @@ tasks
                   /\ taskSeq' = taskSeq + 1
                   /\ req' = Disturb(req, "none")
              ELSE UNCHANGED <<tasks, taskSeq, req>>
    /\ UNCHANGED <<sections, secSeq, seeded, now, strictQuery>>

\* findByIdAndUpdate(id, body): the declared paths of the body replace the
\* stored ones, array elements are cast; undeclared paths are dropped.
ApplyTaskUpdate(doc, body) ==
    [f \in (DOMAIN doc) \cup ((DOMAIN body) \cap TaskPaths) |->
        IF f \in (DOMAIN body) \cap TaskPaths
        THEN IF f = "timeTracking"
             THEN [i \in 1..Len(body[f]) |-> SessionCast(body[f][i])]
             ELSE body[f]
        ELSE doc[f]]

\* updateTask: the owner check is commented out in the source.
UpdateTask(u, t, body) ==
    /\ t \in 1..taskSeq
    /\ last' = Direct("updateTask", u, t, IF t \in DOMAIN tasks THEN 200 ELSE 404)
    /\ IF t \in DOMAIN tasks
       THEN /\ tasks' = [tasks EXCEPT ![t] = ApplyTaskUpdate(tasks[t], body)]
            /\ req' = Disturb(req, "none")
       ELSE UNCHANGED <<tasks, req>>
    /\ UNCHANGED <<taskSeq, sections, secSeq, seeded, now, strictQuery>>

\* deleteTask: the owner check is commented out in the source.
DeleteTask(u, t) ==
    /\ t \in 1..taskSeq
    /\ last' = Direct("deleteTask", u, t, IF t \in DOMAIN tasks THEN 200 ELSE 404)
    /\ IF t \in DOMAIN tasks
       THEN /\ tasks' = [x \in (DOMAIN tasks) \ {t} |-> tasks[x]]
            /\ req' = Disturb(req, "none")
       ELSE UNCHANGED <<tasks, req>>
    /\ UNCHANGED <<taskSeq, sections, secSeq, seeded, now, strictQuery>>

(* --------------------------- time tracking ----------------------------- *)

Begin(o, u, t) ==
    [Idle EXCEPT !.op = o, !.user = u, !.task = t, !.clean = TRUE, !.pre = tasks]

\* startTimeTracking up to the first await after findById: 404, 403, or on
\* to getUserActiveSessions with the loaded document.
StartFind(p, u, t) ==
    /\ req[p].pc = "idle"
    /\ t \in 1..taskSeq
    /\ LET b == Begin("start", u, t)
       IN  IF t \notin DOMAIN tasks
           THEN last' = Reply(b, 404, {}) /\ UNCHANGED req
           ELSE IF ~IsAuthorized(tasks[t], u)
           THEN last' = Reply(b, 403, {}) /\ UNCHANGED req
           ELSE /\ last' = NoAnswer
                /\ req' = [req EXCEPT ![p] = [b EXCEPT !.pc = "loaded", !.doc = tasks[t]]]
    /\ UNCHANGED <<tasks, taskSeq, sections, secSeq, seeded, now, strictQuery>>

\* startTimeTracking from getUserActiveSessions to the call of save: the
\* cross-task check on the store as it is now, the in-task check on the
\* loaded document, then the push of the new session onto the loaded document.
StartCheck(p) ==
    /\ req[p].pc = "loaded"
    /\ LET r == req[p]
           act == GetUserActiveSessions(tasks, r.user, strictQuery)
           own == FindActive(r.doc.timeTracking, r.user)
           newSession == [userId |-> r.user, startTime |-> now,
                          isActive |-> TRUE, duration |-> 0, startedBy |-> r.user]
       IN  IF act.threw \/ act.found # {} \/ own.threw \/ own.idx # 0
           THEN /\ last' = IF act.threw THEN Reply(r, 500, {})
                           ELSE IF act.found # {} THEN Reply(r, 400, act.found)
                           ELSE IF own.threw THEN Reply(r, 500, {})
                           ELSE Reply(r, 400, {r.task})
                /\ req' = [req EXCEPT ![p] = Idle]
           ELSE /\ last' = NoAnswer
                /\ req' = [req EXCEPT ![p] =
                      [r EXCEPT !.pc = "save",
                                !.doc = [r.doc EXCEPT !.timeTracking =
                                            Append(@, SessionCast(newSession))],
                                !.delta = [kind |-> "push",
                                           idx |-> Len(r.doc.timeTracking) + 1]]]
    /\ UNCHANGED <<tasks, taskSeq, sections, secSeq, seeded, now, strictQuery>>

\* The object stopTimeTracking writes over the active session.
ClosedSession(s, endTime) ==
    [f \in (DOMAIN s) \cup {"endTime"} |->
        CASE f = "endTime" -> endTime
          [] f = "duration" -> endTime - s.startTime
          [] f = "isActive" -> FALSE
          [] OTHER -> s[f]]

\* The loaded document after stopTimeTracking has closed element i of it and
\* added the duration to timeTracked.
StoppedDoc(doc, i, endTime) ==
    [f \in (DOMAIN doc) \cup {"timeTracked"} |->
        CASE f = "timeTracking" ->
                [doc.timeTracking EXCEPT
                    ![i] = SessionCast(ClosedSession(doc.timeTracking[i], endTime))]
          [] f = "timeTracked" -> TimeTrackedOf(doc) + (endTime - doc.timeTracking[i].startTime)
          [] OTHER -> doc[f]]

\* stopTimeTracking up to the call of save: 404, 403, the search of the
\* requester's active session in the loaded document (500 when it throws,
\* 400 when there is none), then the changes to the loaded document.
StopFind(p, u, t) ==
    /\ req[p].pc = "idle"
    /\ t \in 1..taskSeq
    /\ LET b == Begin("stop", u, t)
           own == FindActive(tasks[t].timeTracking, u)
       IN  IF t \notin DOMAIN tasks
           THEN last' = Reply(b, 404, {}) /\ UNCHANGED req
           ELSE IF ~IsAuthorized(tasks[t], u)
           THEN last' = Reply(b, 403, {}) /\ UNCHANGED req
           ELSE IF own.threw
           THEN last' = Reply(b, 500, {}) /\ UNCHANGED req
           ELSE IF own.idx = 0
           THEN last' = Reply(b, 400, {}) /\ UNCHANGED req
           ELSE /\ last' = NoAnswer
                /\ req' = [req EXCEPT ![p] =
                      [b EXCEPT !.pc = "save",
                                !.doc = StoppedDoc(tasks[t], own.idx, now),
                                !.delta = [kind |-> "set", idx |-> own.idx]]]
    /\ UNCHANGED <<tasks, taskSeq, sections, secSeq, seeded, now, strictQuery>>

\* What task.save() writes: the pushed element is appended to the stored
\* array, a replaced element is set at its index; only declared paths are
\* written.
Persist(stored, doc, delta) ==
    [f \in DOMAIN stored |->
        IF f = "timeTracking"
        THEN IF delta.kind = "push"
             THEN Append(stored.timeTracking, doc.timeTracking[delta.idx])
             ELSE [stored.timeTracking EXCEPT ![delta.idx] = doc.timeTracking[delta.idx]]
        ELSE stored[f]]

\* task.save() of a start or stop request: the pre-save hook on the loaded
\* document, then the write; a failure is answered 500 by the handler's catch.
Save(p) ==
    /\ req[p].pc = "save"
    /\ LET r == req[p]
           ok == /\ PreSaveOk(r.doc)
                 /\ r.task \in DOMAIN tasks
                 /\ r.delta.kind = "set" => r.delta.idx <= Len(tasks[r.task].timeTracking)
       IN  /\ (ok /\ r.delta.kind = "push") => Len(tasks[r.task].timeTracking) < MaxSessions
           /\ IF ok
              THEN /\ tasks' = [tasks EXCEPT ![r.task] = Persist(@, r.doc, r.delta)]
                   /\ req' = [Disturb(req, p) EXCEPT ![p] = Idle]
                   /\ last' = Reply(r, 200, {})
              ELSE /\ req' = [req EXCEPT ![p] = Idle]
                   /\ last' = Reply(r, 500, {})
                   /\ UNCHANGED tasks
    /\ UNCHANGED <<taskSeq, sections, secSeq, seeded, now, strictQuery>>

(* ------------------------- time-tracking inputs ------------------------ *)

\* Request bodies of createTask used with the time-tracking handlers.
TrackCreateBodies ==
    {[title |-> <<"a">>, createdBy |-> "u1", assignees |-> a, containerId |-> 1] :
        a \in {{}, {"u2"}}}

\* timeTracking elements in a body of updateTask.
BodySessions ==
    { [startTime |-> 1, endTime |-> 0, duration |-> 2],
      [startTime |-> 0] }

\* Request bodies of updateTask used with the time-tracking handlers.
TrackUpdateBodies ==
    {[assignees |-> a] : a \in {{}, {"u2"}}}
    \cup {[timeTracking |-> << >>]}
    \cup {[timeTracking |-> <<s>>] : s \in BodySessions}
    \cup {[timeTracked |-> 7]}

(* ------------------- sections (section controller) -------------------- *)

\* defaultSections of seedDefaultSections.js, in order.
DefaultSections ==
    << [title |-> "Open", color |-> "#3B82F6", isDefault |-> TRUE],
       [title |-> "In Progress", color |-> "#F59E0B", isDefault |-> TRUE],
       [title |-> "Completed", color |-> "#10B981", isDefault |-> TRUE],
       [title |-> "Blocked", color |-> "#EF4444", isDefault |-> TRUE],
       [title |-> "On Hold", color |-> "#6B7280", isDefault |-> TRUE] >>

\* The upserts of seedDefaultSections from list element i on: an element is
\* inserted, under the next id, when no stored section has its title and
\* isDefault = true.  st is [secs, seq, ins]: the collection, the ids handed
\* out, the ids inserted.
RECURSIVE SeedFrom(_, _)
SeedFrom(st, i) ==
    IF i > Len(DefaultSections) THEN st
    ELSE IF \E x \in DOMAIN st.secs :
               /\ st.secs[x].title = DefaultSections[i].title
               /\ st.secs[x].isDefault
         THEN SeedFrom(st, i + 1)
         ELSE SeedFrom([secs |-> (st.seq + 1 :> DefaultSections[i]) @@ st.secs,
                        seq |-> st.seq + 1,
                        ins |-> st.ins \cup {st.seq + 1}], i + 1)

\* seedDefaultSections, run at each start of the server.
Seed ==
    /\ LET st == SeedFrom([secs |-> sections, seq |-> secSeq, ins |-> {}], 1)
       IN  /\ st.ins # {}
           /\ sections' = st.secs
           /\ secSeq' = st.seq
           /\ seeded' = seeded \cup st.ins
    /\ last' = NoAnswer
    /\ UNCHANGED <<tasks, taskSeq, now, strictQuery, req>>

\* createSection: title and color come from the body, createdBy is the
\* requester, isDefault takes the schema default; a missing title is a
\* validation error, answered 500.
CreateSection(u, body) ==
    /\ secSeq - Cardinality(seeded) < MaxCustom
    /\ IF "title" \in DOMAIN body
       THEN /\ sections' = (secSeq + 1 :>
                    [title |-> body.title,
                     color |-> IF "color" \in DOMAIN body THEN body.color ELSE "#3B82F6",
                     createdBy |-> u,
                     isDefault |-> FALSE]) @@ sections
            /\ secSeq' = secSeq + 1
            /\ last' = Direct("createSection", u, secSeq + 1, 201)
       ELSE /\ last' = Direct("createSection", u, 0, 500)
            /\ UNCHANGED <<sections, secSeq>>
    /\ UNCHANGED <<tasks, taskSeq, seeded, now, strictQuery, req>>

\* Paths the CustomSection schema declares (tasks is not modelled).
SectionPaths == {"title", "color", "createdBy", "isDefault"}

\* The answer of updateSection: 404, 500 when createdBy.toString() throws on
\* a section without createdBy, 403 for another user's section, 400 for a
\* default section.
UpdateSectionStatus(secs, id, u) ==
    IF id \notin DOMAIN secs THEN 404
    ELSE IF "createdBy" \notin DOMAIN secs[id] THEN 500
    ELSE IF secs[id].createdBy # u THEN 403
    ELSE IF secs[id].isDefault THEN 400
    ELSE 200

UpdateSection(u, id, body) ==
    /\ id \in 1..secSeq
    /\ LET code == UpdateSectionStatus(sections, id, u)
       IN  /\ last' = Direct("updateSection", u, id, code)
           /\ IF code = 200
              THEN sections' = [sections EXCEPT ![id] =
                       [f \in (DOMAIN @) \cup ((DOMAIN body) \cap SectionPaths) |->
                           IF f \in DOMAIN body THEN body[f] ELSE @[f]]]
              ELSE UNCHANGED sections
    /\ UNCHANGED <<tasks, taskSeq, secSeq, seeded, now, strictQuery, req>>

\* Mutant: deleteSection without the refusal of default sections.
DeleteSectionStatus_NoDefaultGuard(secs, id) ==
    IF id \notin DOMAIN secs THEN 404 ELSE 200

\* The answer of deleteSection: 404, 400 for a default section (the owner
\* check is commented out in the source).
DeleteSectionStatus(secs, id) ==
    IF id \notin DOMAIN secs THEN 404
    ELSE IF secs[id].isDefault THEN 400
    ELSE 200

DeleteSection(u, id) ==
    /\ id \in 1..secSeq
    /\ LET code == DeleteSectionStatus(sections, id)
       IN  /\ last' = Direct("deleteSection", u, id, code)
           /\ IF code = 200
              THEN sections' = [x \in (DOMAIN sections) \ {id} |-> sections[x]]
              ELSE UNCHANGED sections
    /\ UNCHANGED <<tasks, taskSeq, secSeq, seeded, now, strictQuery, req>>

\* sort({ isDefault: -1, createdAt: 1 }): the ids of S, defaults first,
\* then earliest created first.
RECURSIVE DefaultsFirst(_, _)
DefaultsFirst(secs, S) ==
    IF S = {} THEN << >>
    ELSE LET m == CHOOSE x \in S : \A y \in S :
                      \/ secs[x].isDefault /\ ~secs[y].isDefault
                      \/ secs[x].isDefault = secs[y].isDefault /\ x <= y
         IN  <<m>> \o DefaultsFirst(secs, S \ {m})

\* Mutant: the query of getSections without its filter.
GetSectionsMatches_All(sec, u) == sec.isDefault \/ ~sec.isDefault

\* The filter of getSections: created by the requester, or default.
GetSectionsMatches(sec, u) ==
    \/ "createdBy" \in DOMAIN sec /\ sec.createdBy = u
    \/ sec.isDefault

\* getSections: reads only.
GetSections(u) ==
    /\ last' = [Direct("getSections", u, 0, 200) EXCEPT
                   !.result = DefaultsFirst(sections,
                                  {id \in DOMAIN sections :
                                      GetSectionsMatches(sections[id], u)})]
    /\ UNCHANGED <<tasks, taskSeq, sections, secSeq, seeded, now, strictQuery, req>>

\* Request bodies of createSection and updateSection.
SectionCreateBodies ==
    { [title |-> "Mine"], [title |-> "Open", color |-> "#000000"], [color |-> "#000000"] }

SectionUpdateBodies ==
    { [title |-> "Open"], [color |-> "#000000"], [isDefault |-> TRUE],
      [createdBy |-> "u2"] }

(* ---------------------------- specifications --------------------------- *)

\* Time tracking with one request slot: a start or stop request interleaves
\* with the single-step task handlers.
NextTrack ==
    \/ Tick
    \/ \E b \in TrackCreateBodies : CreateTask("u1", b)
    \/ \E t \in TaskIds, b \in TrackUpdateBodies : UpdateTask("u2", t, b)
    \/ \E t \in TaskIds : DeleteTask("u2", t)
    \/ \E u \in Users, t \in TaskIds : StartFind("p1", u, t)
    \/ StartCheck("p1")
    \/ \E u \in Users, t \in TaskIds : StopFind("p1", u, t)
    \/ Save("p1")

SpecTrack == Init /\ [][NextTrack]_vars

\* Time tracking with two request slots: start and stop requests interleave
\* with each other.
NextRace ==
    \/ Tick
    \/ \E b \in TrackCreateBodies : CreateTask("u1", b)
    \/ \E p \in Procs, u \in Users, t \in TaskIds : StartFind(p, u, t)
    \/ \E p \in Procs : StartCheck(p)
    \/ \E p \in Procs, u \in Users, t \in TaskIds : StopFind(p, u, t)
    \/ \E p \in Procs : Save(p)

SpecRace == Init /\ [][NextRace]_vars

\* The section handlers and the seed.
NextSections ==
    \/ Seed
    \/ \E u \in Users, b \in SectionCreateBodies : CreateSection(u, b)
    \/ \E u \in Users, id \in 1..secSeq, b \in SectionUpdateBodies : UpdateSection(u, id, b)
    \/ \E u \in Users, id \in 1..secSeq : DeleteSection(u, id)
    \/ \E u \in Users : GetSections(u)

SpecSections == Init /\ [][NextSections]_vars

(* ------------------------------- the board ----------------------------- *)

\* String(id): the text of an id, as stored in the String paths status and
\* containerId.
IdStrings == <<"1", "2", "3", "4", "5", "6", "7", "8", "9">>

IdStr(i) == IdStrings[i]

\* The case folding of the "i" flag of $regex, on the letters of the model.
Lower(c) ==
    CASE c = "A" -> "a"
      [] c = "B" -> "b"
      [] OTHER -> c

\* { $regex: search, $options: "i" } for a search text without
\* metacharacters: the text occurs in the value, letter case ignored.
RegexMatches(hay, needle) ==
    \E k \in 0..(Len(hay) - Len(needle)) :
        \A j \in 1..Len(needle) : Lower(hay[k + j]) = Lower(needle[j])

\* The filter getTasks builds from the query string: the $or on createdBy
\* and assignees is replaced by the $or on title and description when a
\* search text is given; "All" switches the status and priority filters off.
GetTasksMatches(doc, u, q) ==
    /\ IF "search" \in DOMAIN q /\ Len(q.search) > 0
       THEN \/ RegexMatches(doc.title, q.search)
            \/ "description" \in DOMAIN doc /\ RegexMatches(doc.description, q.search)
       ELSE doc.createdBy = u \/ u \in doc.assignees
    /\ ("status" \in DOMAIN q /\ q.status # "All") => doc.status = q.status
    /\ ("priority" \in DOMAIN q /\ q.priority # "All") => doc.priority = q.priority
    /\ "assignedTo" \in DOMAIN q => q.assignedTo \in doc.assignees

\* sort({ createdAt: -1 }): the ids of S, latest created first.
RECURSIVE NewestFirst(_)
NewestFirst(S) ==
    IF S = {} THEN << >>
    ELSE LET m == CHOOSE x \in S : \A y \in S : y <= x
         IN  <<m>> \o NewestFirst(S \ {m})

\* getTasks: reads only.
GetTasks(u, q) ==
    /\ last' = [Direct("getTasks", u, 0, 200) EXCEPT
                   !.result = NewestFirst({t \in DOMAIN tasks :
                                              GetTasksMatches(tasks[t], u, q)})]
    /\ UNCHANGED <<tasks, taskSeq, sections, secSeq, seeded, now, strictQuery, req>>

\* The answer of updateTaskStatus; the body's status is a section id.
UpdateTaskStatusCode(db, secs, u, t, sid) ==
    IF t \notin DOMAIN db THEN 404
    ELSE IF ~IsAuthorized(db[t], u) THEN 403
    ELSE LET v == ValidateStatus(secs, TRUE, u, TRUE, sid)
         IN  IF v = "throw" THEN 500
             ELSE IF v = "false" THEN 400
             ELSE IF ~PreSaveOk(db[t]) THEN 500
             ELSE 200

\* updateTaskStatus: task.status = status, then save; containerId is not
\* written.
UpdateTaskStatus(u, t, sid) ==
    /\ t \in 1..taskSeq
    /\ LET code == UpdateTaskStatusCode(tasks, sections, u, t, sid)
       IN  /\ last' = Direct("updateTaskStatus", u, t, code)
           /\ IF code = 200
              THEN /\ tasks' = [tasks EXCEPT ![t].status = IdStr(sid)]
                   /\ req' = Disturb(req, "none")
              ELSE UNCHANGED <<tasks, req>>
    /\ UNCHANGED <<taskSeq, sections, secSeq, seeded, now, strictQuery>>

\* The ids of the updates, as updates.map(update => update.taskId).
UpdateIds(ups) == {ups[i].taskId : i \in 1..Len(ups)}

\* bulkUpdateSortIndex up to the await of Task.find and the checks on what it
\* returned (kept in the slot's doc): 400 without updates, 404 when the documents found are not as
\* many as the updates, 403 when one of them is neither created by nor
\* assigned to the requester.
BulkFind(p, u, ups) ==
    /\ req[p].pc = "idle"
    /\ LET found == UpdateIds(ups) \cap DOMAIN tasks
           b == [Begin("bulk", u, 0) EXCEPT !.delta = ups,
                                            !.doc = [t \in found |-> tasks[t]]]
       IN  IF Len(ups) = 0
           THEN last' = Reply(b, 400, {}) /\ UNCHANGED req
           ELSE IF Cardinality(found) # Len(ups)
           THEN last' = Reply(b, 404, {}) /\ UNCHANGED req
           ELSE IF \E t \in found : ~IsAuthorized(tasks[t], u)
           THEN last' = Reply(b, 403, {}) /\ UNCHANGED req
           ELSE /\ last' = NoAnswer
                /\ req' = [req EXCEPT ![p] =
                              [b EXCEPT !.pc =
                                  IF \E i \in 1..Len(ups) : "containerId" \in DOMAIN ups[i]
                                  THEN "containers" ELSE "write"]]
    /\ UNCHANGED <<tasks, taskSeq, sections, secSeq, seeded, now, strictQuery>>

\* The loop over containerIds from update i on: the first container that
\* validateStatus refuses or throws on ends it.
RECURSIVE ContainersFrom(_, _, _, _)
ContainersFrom(secs, u, ups, i) ==
    IF i > Len(ups) THEN "true"
    ELSE IF "containerId" \notin DOMAIN ups[i] THEN ContainersFrom(secs, u, ups, i + 1)
    ELSE LET v == ValidateStatus(secs, TRUE, u, TRUE, ups[i].containerId)
         IN  IF v = "true" THEN ContainersFrom(secs, u, ups, i + 1) ELSE v

\* bulkUpdateSortIndex, the validation of the containers of the updates.
BulkContainers(p) ==
    /\ req[p].pc = "containers"
    /\ LET r == req[p]
           v == ContainersFrom(sections, r.user, r.delta, 1)
       IN  IF v = "true"
           THEN /\ req' = [req EXCEPT ![p].pc = "write"]
                /\ last' = NoAnswer
           ELSE /\ req' = [req EXCEPT ![p] = Idle]
                /\ last' = Reply(r, IF v = "false" THEN 400 ELSE 500, {})
    /\ UNCHANGED <<tasks, taskSeq, sections, secSeq, seeded, now, strictQuery>>

\* updateFields of one update: sortIndex, and with a containerId also
\* containerId and status = containerId.
BulkFields(up) ==
    IF "containerId" \in DOMAIN up
    THEN [sortIndex |-> up.sortIndex, containerId |-> up.containerId,
          status |-> IdStr(up.containerId)]
    ELSE [sortIndex |-> up.sortIndex]

\* Mutant: every updateOne that matched is counted, one per document.
Modified_Matched(old, new) == Len(<<new>>)

\* What an updateOne that matched adds to modifiedCount: a document left as
\* it was is not counted.
Modified(old, new) == IF new = old THEN 0 ELSE 1

\* Task.bulkWrite from operation i on: an updateOne whose filter matches no
\* document writes nothing.  st is [db, n]: the collection and the
\* modifiedCount.
RECURSIVE BulkWriteFrom(_, _, _)
BulkWriteFrom(st, ups, i) ==
    IF i > Len(ups) THEN st
    ELSE IF ups[i].taskId \notin DOMAIN st.db THEN BulkWriteFrom(st, ups, i + 1)
    ELSE LET doc == ApplyTaskUpdate(st.db[ups[i].taskId], BulkFields(ups[i]))
         IN  BulkWriteFrom([db |-> [st.db EXCEPT ![ups[i].taskId] = doc],
                            n |-> st.n + Modified(st.db[ups[i].taskId], doc)],
                           ups, i + 1)

\* bulkUpdateSortIndex, the bulkWrite and the answer.
BulkWrite(p) ==
    /\ req[p].pc = "write"
    /\ LET r == req[p]
           st == BulkWriteFrom([db |-> tasks, n |-> 0], r.delta, 1)
       IN  /\ tasks' = st.db
           /\ req' = [Disturb(req, p) EXCEPT ![p] = Idle]
           /\ last' = [Reply(r, 200, {}) EXCEPT !.count = st.n]
    /\ UNCHANGED <<taskSeq, sections, secSeq, seeded, now, strictQuery>>

\* Request bodies of createTask, by a requester who may differ from the
\* body's createdBy.
BoardCreateBodies ==
    { [title |-> <<"a">>, createdBy |-> "u1", containerId |-> 1],
      [title |-> <<"B">>, createdBy |-> "u2", containerId |-> 6, status |-> "Open",
       assignees |-> {"u1"}] }

\* The task ids the requests of the board name.
BoardTaskIds == {1}

\* Request bodies of updateTask: a move to a section id.
BoardUpdateBodies == { [containerId |-> 6], [containerId |-> 7] }

\* The updates of bulkUpdateSortIndex.
BoardUpdates ==
    {<<[taskId |-> t, sortIndex |-> 3]>> : t \in BoardTaskIds}
    \cup {<<[taskId |-> t, sortIndex |-> 3, containerId |-> c]>> :
              t \in BoardTaskIds, c \in {1, 6}}
    \cup {<< >>}

\* Sections, tasks and their moves, with one request slot for the bulk
\* update.
NextBoard ==
    \/ Seed
    \/ \E u \in Users : CreateSection(u, [title |-> "Mine"])
    \/ \E id \in 1..secSeq : DeleteSection("u2", id)
    \/ \E u \in Users, b \in BoardCreateBodies : CreateTask(u, b)
    \/ \E t \in BoardTaskIds, b \in BoardUpdateBodies : UpdateTask("u2", t, b)
    \/ \E u \in Users, t \in BoardTaskIds, sid \in {1, 6} : UpdateTaskStatus(u, t, sid)
    \/ \E u \in Users, ups \in BoardUpdates : BulkFind("p1", u, ups)
    \/ BulkContainers("p1")
    \/ BulkWrite("p1")

SpecBoard == Init /\ [][NextBoard]_vars

\* Mutant: the find does not look at the container.
ReorderFindMatches_AnyContainer(doc, u, c) == doc.createdBy = u \/ u \in doc.assignees

\* The filter of the Task.find of reorderTasksInContainer: the document is
\* in the container and is created by or assigned to the requester.
ReorderFindMatches(doc, u, c) ==
    /\ doc.containerId = c
    /\ doc.createdBy = u \/ u \in doc.assignees

\* reorderTasksInContainer up to the await of validateStatus: 400 when
\* taskOrders is no array or the container is refused.
ReorderContainer(p, u, c, hasOrders, orders) ==
    /\ req[p].pc = "idle"
    /\ LET b == [Begin("reorder", u, 0) EXCEPT !.container = c, !.delta = orders]
           v == ValidateStatus(sections, TRUE, u, TRUE, c)
       IN  IF ~hasOrders \/ v = "false"
           THEN last' = [Reply(b, 400, {}) EXCEPT !.id = c] /\ UNCHANGED req
           ELSE IF v = "throw"
           THEN last' = [Reply(b, 500, {}) EXCEPT !.id = c] /\ UNCHANGED req
           ELSE /\ last' = NoAnswer
                /\ req' = [req EXCEPT ![p] = [b EXCEPT !.pc = "find"]]
    /\ UNCHANGED <<tasks, taskSeq, sections, secSeq, seeded, now, strictQuery>>

\* reorderTasksInContainer, the Task.find and the check on what it returned
\* (kept in the slot's doc): 403 when the documents found are not as many as
\* the orders.
ReorderFind(p) ==
    /\ req[p].pc = "find"
    /\ LET r == req[p]
           found == {t \in UpdateIds(r.delta) \cap DOMAIN tasks :
                        ReorderFindMatches(tasks[t], r.user, r.container)}
       IN  IF Cardinality(found) # Len(r.delta)
           THEN /\ req' = [req EXCEPT ![p] = Idle]
                /\ last' = [Reply(r, 403, {}) EXCEPT !.id = r.container]
           ELSE /\ req' = [req EXCEPT ![p].pc = "reorder",
                                      ![p].doc = [t \in found |-> tasks[t]]]
                /\ last' = NoAnswer
    /\ UNCHANGED <<tasks, taskSeq, sections, secSeq, seeded, now, strictQuery>>

\* Mutant: the write does not look at the container.
ReorderWriteMatches_AnyContainer(doc, u, c) == doc.createdBy = u \/ u \in doc.assignees

\* The filter of an updateOne of reorderTasksInContainer.
ReorderWriteMatches(doc, u, c) ==
    /\ doc.containerId = c
    /\ doc.createdBy = u \/ u \in doc.assignees

\* The bulkWrite of reorderTasksInContainer from operation i on.
RECURSIVE ReorderWriteFrom(_, _, _, _, _)
ReorderWriteFrom(st, u, c, orders, i) ==
    IF i > Len(orders) THEN st
    ELSE LET t == orders[i].taskId
         IN  IF t \notin DOMAIN st.db \/ ~ReorderWriteMatches(st.db[t], u, c)
             THEN ReorderWriteFrom(st, u, c, orders, i + 1)
             ELSE LET doc == ApplyTaskUpdate(st.db[t], [sortIndex |-> orders[i].sortIndex])
                  IN  ReorderWriteFrom([db |-> [st.db EXCEPT ![t] = doc],
                                        n |-> st.n + Modified(st.db[t], doc)],
                                       u, c, orders, i + 1)

\* reorderTasksInContainer, the bulkWrite and the answer.
ReorderWrite(p) ==
    /\ req[p].pc = "reorder"
    /\ LET r == req[p]
           st == ReorderWriteFrom([db |-> tasks, n |-> 0], r.user, r.container, r.delta, 1)
       IN  /\ tasks' = st.db
           /\ req' = [Disturb(req, p) EXCEPT ![p] = Idle]
           /\ last' = [Reply(r, 200, {}) EXCEPT !.id = r.container, !.count = st.n]
    /\ UNCHANGED <<taskSeq, sections, secSeq, seeded, now, strictQuery>>

\* Request bodies of createTask for the reorders.
BulkCreateBodies ==
    { [title |-> <<"a">>, createdBy |-> "u1", containerId |-> 1, sortIndex |-> 1],
      [title |-> <<"B">>, createdBy |-> "u2", containerId |-> 1, sortIndex |-> 2,
       assignees |-> {"u1"}] }

\* Request bodies of updateTask: a move to section 2.
BulkUpdateBodies == { [containerId |-> 2] }

\* The updates of bulkUpdateSortIndex: batches of two.
BulkUpdates ==
    { << [taskId |-> 1, sortIndex |-> 2], [taskId |-> 2, sortIndex |-> 1] >>,
      << [taskId |-> 1, sortIndex |-> 1, containerId |-> 2],
         [taskId |-> 2, sortIndex |-> 2] >>,
      << >> }

\* The taskOrders of reorderTasksInContainer.
BulkOrders ==
    { << [taskId |-> 1, sortIndex |-> 2], [taskId |-> 2, sortIndex |-> 1] >> }

\* The two reorders, with one request slot, between creations, moves and
\* deletions of tasks.
NextBulk ==
    \/ Seed
    \/ \E b \in BulkCreateBodies : CreateTask("u1", b)
    \/ \E t \in TaskIds, b \in BulkUpdateBodies : UpdateTask("u2", t, b)
    \/ \E t \in TaskIds : DeleteTask("u2", t)
    \/ \E u \in Users, ups \in BulkUpdates : BulkFind("p1", u, ups)
    \/ BulkContainers("p1")
    \/ BulkWrite("p1")
    \/ \E u \in Users, c \in {1, 2}, h \in BOOLEAN, o \in BulkOrders :
           ReorderContainer("p1", u, c, h, o)
    \/ ReorderFind("p1")
    \/ ReorderWrite("p1")

SpecBulk == Init /\ [][NextBulk]_vars

\* toLocaleDateString("en-US", { month: "short", day: "numeric", year:
\* "2-digit" }) of the date t seconds after the epoch, for a date in January
\* 1970 of the server's time zone, taken as UTC.
FormattedDue(t) == "Jan " \o ToString((t \div 86400) + 1) \o ", 70"

\* Mutant: a due date equal to now is overdue.
FormatDateRange_DueNowOverdue(doc, at) ==
    IF "dueDate" \notin DOMAIN doc THEN "No due date"
    ELSE IF doc.dueDate <= at THEN "Overdue: " \o FormattedDue(doc.dueDate)
    ELSE FormattedDue(doc.dueDate)

\* formatDateRange(task.dueDate) at time at.
FormatDateRange(doc, at) ==
    IF "dueDate" \notin DOMAIN doc THEN "No due date"
    ELSE IF doc.dueDate < at THEN "Overdue: " \o FormattedDue(doc.dueDate)
    ELSE FormattedDue(doc.dueDate)

\* boardData of getTasksBoard: every stored section in the order of the
\* sections query, each with the stored tasks whose containerId is the
\* section's id, in the order of the tasks query.
BoardData(db, secs, at) ==
    LET order == DefaultsFirst(secs, DOMAIN secs)
    IN  [i \in 1..Len(order) |->
            LET listed == NewestFirst({t \in DOMAIN db : db[t].containerId = order[i]})
            IN  [id |-> order[i],
                 tasks |-> listed,
                 dateRange |-> [k \in 1..Len(listed) |-> FormatDateRange(db[listed[k]], at)]]]

\* Mutant: a board that writes the section's title into the status of the
\* tasks it lists.
GetTasksBoard_Writing(u) ==
    /\ last' = [Direct("getTasksBoard", u, 0, 200) EXCEPT
                   !.result = BoardData(tasks, sections, now)]
    /\ tasks' = [t \in DOMAIN tasks |->
                    IF tasks[t].containerId \in DOMAIN sections
                    THEN [tasks[t] EXCEPT !.status = sections[tasks[t].containerId].title]
                    ELSE tasks[t]]
    /\ UNCHANGED <<taskSeq, sections, secSeq, seeded, now, strictQuery, req>>

\* getTasksBoard: reads only; neither query has a filter on the requester.
GetTasksBoard(u) ==
    /\ last' = [Direct("getTasksBoard", u, 0, 200) EXCEPT
                   !.result = BoardData(tasks, sections, now)]
    /\ UNCHANGED <<tasks, taskSeq, sections, secSeq, seeded, now, strictQuery, req>>

\* Request bodies of createTask for the board projection.
ViewCreateBodies ==
    { [title |-> <<"a">>, createdBy |-> "u1", containerId |-> 1, sortIndex |-> 1],
      [title |-> <<"B">>, createdBy |-> "u2", containerId |-> 1, sortIndex |-> 2,
       assignees |-> {"u1"}, dueDate |-> 0],
      [title |-> <<"B">>, createdBy |-> "u2", containerId |-> 1, sortIndex |-> 2,
       assignees |-> {"u1"}, dueDate |-> 1] }

\* Request bodies of updateTask: a sortIndex below the others.
ViewUpdateBodies == { [sortIndex |-> 0] }

\* The board projection, between creations of sections and tasks and
\* changes of sortIndex.
NextView ==
    \/ Tick
    \/ Seed
    \/ \E u \in Users : CreateSection(u, [title |-> "Mine"])
    \/ \E b \in ViewCreateBodies : CreateTask("u1", b)
    \/ \E t \in TaskIds, b \in ViewUpdateBodies : UpdateTask("u1", t, b)
    \/ \E u \in Users : GetTasksBoard(u)

SpecView == Init /\ [][NextView]_vars

(* ------------------------- time-tracking views ------------------------- *)

\* n.toString().padStart(2, "0")
PadStart2(n) == IF n < 10 THEN "0" \o ToString(n) ELSE ToString(n)

\* formatDuration
FormatDuration(seconds) ==
    IF seconds <= 0 THEN "00:00:00"
    ELSE PadStart2(seconds \div 3600) \o ":" \o PadStart2((seconds % 3600) \div 60)
             \o ":" \o PadStart2(seconds % 60)

\* The reduce over sessions from element i on: an active session counts
\* with now - startTime, any other with its stored duration.
RECURSIVE TotalFrom(_, _, _)
TotalFrom(ss, i, at) ==
    IF i > Len(ss) THEN 0
    ELSE (IF ss[i].isActive THEN at - ss[i].startTime ELSE ss[i].duration)
             + TotalFrom(ss, i + 1, at)

\* filter(session => session.userId && session.userId == requester)
SessionsOfUser(tt, u) ==
    SelectSeq(tt, LAMBDA x : "userId" \in DOMAIN x /\ x.userId = u)

\* getUserDashboard, totalTimeOnTask of every task the query returns (the
\* populate of the undeclared path timeTracking.userId changes nothing).
DashboardTotals(db, u, at) ==
    [t \in {x \in DOMAIN db : IsAuthorized(db[x], u)} |->
        TotalFrom(SessionsOfUser(db[t].timeTracking, u), 1, at)]

\* getUserDashboard: reads only.
GetUserDashboard(u) ==
    /\ last' = [Direct("dashboard", u, 0, 200) EXCEPT
                   !.result = DashboardTotals(tasks, u, now)]
    /\ UNCHANGED <<tasks, taskSeq, sections, secSeq, seeded, now, strictQuery, req>>

\* formattedHistory of getTimeTrackingHistory.
FormattedHistory(tt, u, at) ==
    LET ss == SessionsOfUser(tt, u)
    IN  [i \in 1..Len(ss) |->
            LET d == IF ss[i].isActive THEN at - ss[i].startTime ELSE ss[i].duration
            IN  [startTime |-> ss[i].startTime, isActive |-> ss[i].isActive,
                 duration |-> d, formattedDuration |-> FormatDuration(d)]]

\* getTimeTrackingHistory: reads only; count carries totalTimeTracked.
GetTimeTrackingHistory(u, t) ==
    /\ t \in 1..taskSeq
    /\ last' = IF t \notin DOMAIN tasks THEN Direct("history", u, t, 404)
               ELSE IF ~IsAuthorized(tasks[t], u) THEN Direct("history", u, t, 403)
               ELSE [Direct("history", u, t, 200) EXCEPT
                        !.result = FormattedHistory(tasks[t].timeTracking, u, now),
                        !.count = TimeTrackedOf(tasks[t])]
    /\ UNCHANGED <<tasks, taskSeq, sections, secSeq, seeded, now, strictQuery, req>>

\* getActiveTimeSessions on the tasks the query returns: the find and the
\* filter call session.userId.toString() without a guard, the find on active
\* elements, the filter on every element, so an element without userId makes
\* the handler throw.  The duration pushed for a task with an active session
\* of the user is the total over all the user's sessions of the task.
ActiveTimeSessions(db, u, at) ==
    LET seen == {t \in DOMAIN db : IsAuthorized(db[t], u)}
    IN  [threw |-> \E t \in seen : \E i \in 1..Len(db[t].timeTracking) :
                       "userId" \notin DOMAIN db[t].timeTracking[i],
         found |-> [t \in {x \in seen : FindActive(db[x].timeTracking, u).idx # 0} |->
                       TotalFrom(SessionsOfUser(db[t].timeTracking, u), 1, at)]]

\* getActiveTimeSessions: reads only.
GetActiveTimeSessions(u) ==
    /\ LET a == ActiveTimeSessions(tasks, u, now)
       IN  last' = IF a.threw THEN Direct("activeSessions", u, 0, 500)
                   ELSE [Direct("activeSessions", u, 0, 200) EXCEPT
                            !.active = DOMAIN a.found, !.result = a.found]
    /\ UNCHANGED <<tasks, taskSeq, sections, secSeq, seeded, now, strictQuery, req>>

\* Request bodies of updateTask: a closed session.
TimeUpdateBodies ==
    { [timeTracking |-> << [startTime |-> 0, endTime |-> 1, duration |-> 1] >>] }

\* Time tracking with one request slot on task 1, and the three views of it.
NextTime ==
    \/ Tick
    \/ \E b \in TrackCreateBodies : CreateTask("u1", b)
    \/ \E t \in BoardTaskIds, b \in TimeUpdateBodies : UpdateTask("u2", t, b)
    \/ \E u \in Users, t \in BoardTaskIds : StartFind("p1", u, t)
    \/ StartCheck("p1")
    \/ \E u \in Users, t \in BoardTaskIds : StopFind("p1", u, t)
    \/ Save("p1")
    \/ \E u \in Users : GetUserDashboard(u)
    \/ \E u \in Users, t \in BoardTaskIds : GetTimeTrackingHistory(u, t)
    \/ \E u \in Users : GetActiveTimeSessions(u)

SpecTime == Init /\ [][NextTime]_vars

\* Request bodies of updateTask: a title, a description.
ListUpdateBodies == { [title |-> <<"b">>], [description |-> <<"a", "B">>] }

\* Query strings of getTasks.
ListQueries ==
    { [status |-> "All"], [search |-> <<"b">>],
      [status |-> "Open", priority |-> "Normal", search |-> <<"A">>],
      [assignedTo |-> "u1"], [priority |-> "High"] }

\* The listing of tasks, between creations, updates and deletions.
NextList ==
    \/ \E u \in Users, b \in BoardCreateBodies : CreateTask(u, b)
    \/ \E t \in TaskIds, b \in ListUpdateBodies : UpdateTask("u1", t, b)
    \/ \E t \in TaskIds : DeleteTask("u1", t)
    \/ \E u \in Users, q \in ListQueries : GetTasks(u, q)

SpecList == Init /\ [][NextList]_vars

(* ------------------------------- claims -------------------------------- *)

\* The active sessions in collection db that user u started, as <<task, index>>.
StartedActive(db, u) ==
    UNION { { <<t, i>> : i \in { j \in 1..Len(db[t].timeTracking) :
                                    /\ db[t].timeTracking[j].isActive
                                    /\ "startedBy" \in DOMAIN db[t].timeTracking[j]
                                    /\ db[t].timeTracking[j].startedBy = u } } :
            t \in DOMAIN db }

\* u is the creator or an assignee of the document.
CreatorOrAssignee(doc, u) == doc.createdBy = u \/ u \in doc.assignees

\* The last step answered a start or stop request that ran alone: no other
\* request wrote between its arrival and its answer, and none has since.
RanAlone(o) == last.op = o /\ last.clean

\* C1: in every reachable state, at most one active session belongs to each
\* user, over all tasks, whatever the interleaving of start and stop requests.
C1_OneActiveSessionPerUser ==
    \A u \in Users : Cardinality(StartedActive(tasks, u)) <= 1

\* C2: a start that runs alone while the requester already has an active
\* session in some task is answered with a failure that names the tasks
\* holding it, and appends nothing.
C2_StartRefusedWhileActive ==
    ( /\ RanAlone("start")
      /\ last.id \in DOMAIN last.pre
      /\ CreatorOrAssignee(last.pre[last.id], last.user)
      /\ StartedActive(last.pre, last.user) # {} )
    => ( /\ last.status = 400
         /\ last.active = {x[1] : x \in StartedActive(last.pre, last.user)}
         /\ tasks = last.pre )

\* C3: when another user has an active session in task T, a start on T by an
\* authorized user without any active session succeeds and appends an active
\* session of that user, earlier sessions staying as they were.
C3_StartBesideOtherUser ==
    ( /\ RanAlone("start")
      /\ last.id \in DOMAIN last.pre
      /\ CreatorOrAssignee(last.pre[last.id], last.user)
      /\ StartedActive(last.pre, last.user) = {}
      /\ \E a \in Users \ {last.user} :
            \E x \in StartedActive(last.pre, a) : x[1] = last.id )
    => ( /\ last.status = 200
         /\ last.id \in DOMAIN tasks
         /\ LET old == last.pre[last.id].timeTracking
                new == tasks[last.id].timeTracking
            IN  /\ Len(new) = Len(old) + 1
                /\ \A i \in 1..Len(old) : new[i] = old[i]
                /\ new[Len(new)].isActive
                /\ new[Len(new)].startTime <= now
                /\ <<last.id, Len(new)>> \in StartedActive(tasks, last.user) )

\* C4: every stored session that is not active has an endTime not before its
\* startTime and a duration equal to endTime - startTime, not negative.
C4_ClosedSessionDuration ==
    \A t \in DOMAIN tasks : \A i \in 1..Len(tasks[t].timeTracking) :
        LET s == tasks[t].timeTracking[i]
        IN  ~s.isActive =>
              /\ "endTime" \in DOMAIN s
              /\ s.endTime >= s.startTime
              /\ s.duration = s.endTime - s.startTime
              /\ s.duration >= 0

\* C5: a stop that runs alone on a task where the requester has an active
\* session closes that session and leaves the task's timeTracked larger by
\* exactly the duration of the closed session.
C5_StopAddsDuration ==
    ( /\ RanAlone("stop")
      /\ last.id \in DOMAIN last.pre
      /\ CreatorOrAssignee(last.pre[last.id], last.user)
      /\ \E x \in StartedActive(last.pre, last.user) : x[1] = last.id )
    => ( /\ last.id \in DOMAIN tasks
         /\ \E x \in StartedActive(last.pre, last.user) :
               /\ x[1] = last.id
               /\ ~tasks[last.id].timeTracking[x[2]].isActive
               /\ TimeTrackedOf(tasks[last.id]) =
                     TimeTrackedOf(last.pre[last.id])
                       + tasks[last.id].timeTracking[x[2]].duration )

\* s2 is s closed by a stop.
IsClosingOf(s, s2) ==
    /\ s.isActive /\ ~s2.isActive
    /\ s2.startTime = s.startTime
    /\ "endTime" \in DOMAIN s2

\* C6: in every step every task keeps every session it has; a session changes
\* only by being closed by a stop.
C6_SessionsPermanent ==
    [][ \A t \in DOMAIN tasks :
          /\ t \in DOMAIN tasks'
          /\ Len(tasks'[t].timeTracking) >= Len(tasks[t].timeTracking)
          /\ \A i \in 1..Len(tasks[t].timeTracking) :
                \/ tasks'[t].timeTracking[i] = tasks[t].timeTracking[i]
                \/ /\ last'.op = "stop"
                   /\ IsClosingOf(tasks[t].timeTracking[i], tasks'[t].timeTracking[i]) ]_vars

\* C7: a session is active exactly when it has no endTime, and a session
\* that is not active stays as it is in every step.
C7_ActiveIffNoEndTime ==
    /\ [](\A t \in DOMAIN tasks : \A i \in 1..Len(tasks[t].timeTracking) :
             tasks[t].timeTracking[i].isActive
               <=> "endTime" \notin DOMAIN tasks[t].timeTracking[i])
    /\ [][ \A t \in DOMAIN tasks : \A i \in 1..Len(tasks[t].timeTracking) :
             ~tasks[t].timeTracking[i].isActive =>
                /\ t \in DOMAIN tasks'
                /\ i <= Len(tasks'[t].timeTracking)
                /\ tasks'[t].timeTracking[i] = tasks[t].timeTracking[i] ]_vars

\* C8: a stop that runs alone on a task where the requester has no active
\* session is answered with a failure and leaves every task, its sessions and
\* its timeTracked as they were.
C8_StopWithoutActiveFails ==
    ( /\ RanAlone("stop")
      /\ last.id \in DOMAIN last.pre
            => ~\E x \in StartedActive(last.pre, last.user) : x[1] = last.id )
    => ( last.status >= 400 /\ tasks = last.pre )

\* C8 witness: an authorized requester is told that no active session exists,
\* on a task that has session history.
C8_Witness ==
    /\ RanAlone("stop")
    /\ last.status = 400
    /\ last.id \in DOMAIN last.pre
    /\ CreatorOrAssignee(last.pre[last.id], last.user)
    /\ Len(last.pre[last.id].timeTracking) > 0

\* C9: a start that runs alone by a requester who is neither the creator nor
\* an assignee of the task is answered 403 and appends no session.
C9_StartForbidden ==
    ( /\ RanAlone("start")
      /\ last.id \in DOMAIN last.pre
      /\ ~CreatorOrAssignee(last.pre[last.id], last.user) )
    => ( last.status = 403 /\ tasks = last.pre )

\* C9 witness: a start was answered 403.
C9_Witness ==
    /\ RanAlone("start")
    /\ last.status = 403
    /\ last.id \in DOMAIN last.pre
    /\ ~CreatorOrAssignee(last.pre[last.id], last.user)

C11_DefaultsAreSeeded ==
    /\ []({id \in DOMAIN sections : sections[id].isDefault} = seeded)
    /\ [][ \A id \in (DOMAIN sections) \cap (DOMAIN sections') :
             /\ sections'[id].isDefault = sections[id].isDefault
             /\ ("createdBy" \in DOMAIN sections'[id]) = ("createdBy" \in DOMAIN sections[id])
             /\ "createdBy" \in DOMAIN sections[id]
                   => sections'[id].createdBy = sections[id].createdBy ]_vars

\* C12: a deleteSection of a custom section by a requester who is not its
\* owner is answered 403 and the section is still stored afterwards.
C12_DeleteSectionByNonOwner ==
    [][ ( /\ last'.op = "deleteSection"
          /\ last'.id \in DOMAIN sections
          /\ ~sections[last'.id].isDefault
          /\ "createdBy" \in DOMAIN sections[last'.id]
          /\ sections[last'.id].createdBy # last'.user )
        => ( last'.status = 403 /\ last'.id \in DOMAIN sections' ) ]_vars

\* C13: an updateTask by a requester who is not the creator of the task is
\* answered with a failure and leaves the task as it was.
C13_UpdateTaskByNonCreator ==
    [][ ( /\ last'.op = "updateTask"
          /\ last'.id \in DOMAIN tasks
          /\ tasks[last'.id].createdBy # last'.user )
        => ( last'.status >= 400 /\ tasks' = tasks ) ]_vars

\* C14: a deleteTask by a requester who is not the creator of the task is
\* answered with a failure and the task is still stored afterwards.
C14_DeleteTaskByNonCreator ==
    [][ ( /\ last'.op = "deleteTask"
          /\ last'.id \in DOMAIN tasks
          /\ tasks[last'.id].createdBy # last'.user )
        => ( last'.status >= 400 /\ last'.id \in DOMAIN tasks' ) ]_vars

\* C15: every task a listing returns is created by the requester or has the
\* requester among its assignees, whatever the filters are.
C15_ListOnlyVisible ==
    last.op = "getTasks" =>
        \A i \in 1..Len(last.result) :
            /\ last.result[i] \in DOMAIN tasks
            /\ CreatorOrAssignee(tasks[last.result[i]], last.user)

\* Section id is visible to u: it exists and is a default or owned by u.
VisibleTo(secs, id, u) ==
    /\ id \in DOMAIN secs
    /\ \/ secs[id].isDefault
       \/ "createdBy" \in DOMAIN secs[id] /\ secs[id].createdBy = u

\* C16: a task creation persists a task only when its containerId resolves to
\* a section visible to the requester; a creation that fails persists nothing.
C16_CreateNeedsVisibleContainer ==
    [][ last'.op = "createTask" =>
            IF last'.status = 201
            THEN VisibleTo(sections, tasks'[last'.id].containerId, last'.user)
            ELSE tasks' = tasks ]_vars

\* C17: every task persisted by a creation has the requester as its creator.
C17_CreatorIsRequester ==
    [][ (last'.op = "createTask" /\ last'.status = 201)
            => tasks'[last'.id].createdBy = last'.user ]_vars

\* C18: after a creation, a status move or a bulk update has assigned a task
\* to a section, the task's status is the title of the section its
\* containerId references.
C18_StatusIsContainerTitle ==
    [][ ( /\ last'.op \in {"createTask", "updateTaskStatus", "bulk"}
          /\ last'.status \in {200, 201} )
        => \A t \in DOMAIN tasks' :
              ( \/ t \notin DOMAIN tasks
                \/ tasks'[t].containerId # tasks[t].containerId
                \/ tasks'[t].status # tasks[t].status )
              => /\ tasks'[t].containerId \in DOMAIN sections'
                 /\ tasks'[t].status = sections'[tasks'[t].containerId].title ]_vars

\* C19: every task's containerId references an existing section that is a
\* default or owned by the task's creator.
C19_ContainerVisibleToCreator ==
    \A t \in DOMAIN tasks : VisibleTo(sections, tasks[t].containerId, tasks[t].createdBy)

\* C20: a task update, status move or bulk update changes a task's
\* containerId only to a section visible to the requester, and changes no
\* task when it fails.
C20_MoveNeedsVisibleContainer ==
    [][ last'.op \in {"updateTask", "updateTaskStatus", "bulk"} =>
            /\ last'.status >= 400 => tasks' = tasks
            /\ \A t \in (DOMAIN tasks) \cap (DOMAIN tasks') :
                  tasks'[t].containerId # tasks[t].containerId
                      => VisibleTo(sections, tasks'[t].containerId, last'.user) ]_vars

\* C21: a bulk update that names a task that does not exist, or that the
\* requester neither created nor is assigned to, is not admitted to the write:
\* it is answered with a failure and no task is changed, the valid items of the
\* batch included.
C21_BulkRefusedBeforeWrite ==
    [][ /\ (last'.op = "bulk" /\ last'.status >= 400) => tasks' = tasks
        /\ \A p \in Procs :
              /\ (req[p].pc = "idle" /\ req'[p].op = "bulk")
                    => \A i \in 1..Len(req'[p].delta) :
                          /\ req'[p].delta[i].taskId \in DOMAIN tasks
                          /\ CreatorOrAssignee(tasks[req'[p].delta[i].taskId], req'[p].user)
              /\ (req[p].op = "bulk" /\ req[p].pc = "write" /\ req'[p].pc = "idle")
                    => \A i \in 1..Len(req[p].delta) :
                          /\ req[p].delta[i].taskId \in DOMAIN req[p].doc
                          /\ CreatorOrAssignee(req[p].doc[req[p].delta[i].taskId],
                                               req[p].user) ]_vars

\* A bulk update was refused for a task of another user while the requester
\* is creator or assignee of another task.
C21_Witness ==
    /\ last.op = "bulk"
    /\ last.status = 403
    /\ \E t \in DOMAIN tasks : CreatorOrAssignee(tasks[t], last.user)
    /\ \E t \in DOMAIN tasks : ~CreatorOrAssignee(tasks[t], last.user)

\* C22: the modifiedCount a bulk update or an in-container reorder answers is
\* the number of tasks its write changed, also when a task was deleted or
\* moved between its validation and its write.
C22_ModifiedCountIsChanged ==
    [][ (last'.op \in {"bulk", "reorder"} /\ last'.status = 200)
            => /\ DOMAIN tasks' = DOMAIN tasks
               /\ last'.count = Cardinality({t \in DOMAIN tasks : tasks'[t] # tasks[t]}) ]_vars

\* A batch of two was written after one of its tasks had been deleted, and
\* one task is counted.
C22_Witness ==
    /\ last.op \in {"bulk", "reorder"}
    /\ last.status = 200
    /\ ~last.clean
    /\ last.count = 1
    /\ Cardinality(DOMAIN tasks) = 1

\* C23: an in-container reorder that lists a task which is not in the stated
\* container, or which the requester neither created nor is assigned to, is
\* not admitted to the write: it is answered with a failure and no task is
\* changed.
C23_ReorderRefused ==
    [][ /\ (last'.op = "reorder" /\ last'.status >= 400) => tasks' = tasks
        /\ \A p \in Procs :
              /\ (req[p].pc = "find" /\ req'[p].pc = "reorder")
                    => \A i \in 1..Len(req[p].delta) :
                          LET t == req[p].delta[i].taskId
                          IN  /\ t \in DOMAIN tasks
                              /\ tasks[t].containerId = req[p].container
                              /\ CreatorOrAssignee(tasks[t], req[p].user)
              /\ (req[p].pc = "reorder" /\ req'[p].pc = "idle")
                    => \A i \in 1..Len(req[p].delta) :
                          LET t == req[p].delta[i].taskId
                          IN  /\ t \in DOMAIN req[p].doc
                              /\ req[p].doc[t].containerId = req[p].container
                              /\ CreatorOrAssignee(req[p].doc[t], req[p].user) ]_vars

\* A reorder was refused while one of the requester's tasks is in the stated
\* container and another is not.
C23_Witness ==
    /\ last.op = "reorder"
    /\ last.status = 403
    /\ \E t \in DOMAIN tasks :
          tasks[t].containerId = last.id /\ CreatorOrAssignee(tasks[t], last.user)
    /\ \E t \in DOMAIN tasks :
          tasks[t].containerId # last.id /\ CreatorOrAssignee(tasks[t], last.user)

\* C24: the write of an in-container reorder is conditional per task: a listed
\* task that is no longer in the stated container when the write runs keeps
\* its sortIndex, every listed task that still is there (and is the
\* requester's) gets its new sortIndex.
C24_ReorderWriteConditional ==
    [][ \A p \in Procs :
          (req[p].pc = "reorder" /\ req'[p].pc = "idle")
              => \A i \in 1..Len(req[p].delta) :
                    LET t == req[p].delta[i].taskId
                    IN  t \in DOMAIN tasks
                          => IF /\ tasks[t].containerId = req[p].container
                                /\ CreatorOrAssignee(tasks[t], req[p].user)
                             THEN /\ "sortIndex" \in DOMAIN tasks'[t]
                                  /\ tasks'[t].sortIndex = req[p].delta[i].sortIndex
                             ELSE tasks'[t] = tasks[t] ]_vars

\* A reorder of two tasks was written after one of them had been moved out of
\* the stated container: the moved task has kept its sortIndex, one task is
\* counted.
C24_Witness ==
    /\ last.op = "reorder"
    /\ last.status = 200
    /\ last.count = 1
    /\ \E t \in DOMAIN tasks : tasks[t].containerId # last.id /\ tasks[t].sortIndex = t
    /\ \E t \in DOMAIN tasks : tasks[t].containerId = last.id /\ tasks[t].sortIndex # t

\* C25: in the board projection the tasks under each section are in ascending
\* order of sortIndex.
C25_BoardAscending ==
    last.op = "getTasksBoard" =>
        \A c \in 1..Len(last.result) :
            \A i, j \in 1..Len(last.result[c].tasks) :
                i < j => tasks[last.result[c].tasks[i]].sortIndex
                             <= tasks[last.result[c].tasks[j]].sortIndex

\* C26: the board projection answered to a requester holds only sections that
\* are defaults or the requester's own, and only tasks the requester created
\* or is assigned to.
C26_BoardOnlyVisible ==
    last.op = "getTasksBoard" =>
        \A c \in 1..Len(last.result) :
            /\ VisibleTo(sections, last.result[c].id, last.user)
            /\ \A i \in 1..Len(last.result[c].tasks) :
                  CreatorOrAssignee(tasks[last.result[c].tasks[i]], last.user)

\* C27: within each section every task has a sortIndex and no two tasks have
\* the same one.
C27_SortIndexTotalOrder ==
    /\ \A t \in DOMAIN tasks : "sortIndex" \in DOMAIN tasks[t]
    /\ \A t1, t2 \in DOMAIN tasks :
          (t1 # t2 /\ tasks[t1].containerId = tasks[t2].containerId)
              => tasks[t1].sortIndex # tasks[t2].sortIndex

\* The sessions of a timeTracking array that user u started.
StartedBy(tt, u) ==
    SelectSeq(tt, LAMBDA x : "startedBy" \in DOMAIN x /\ x.startedBy = u)

\* The time of the sessions ss from element i on: the stored duration of a
\* closed one, at - startTime of an active one.
RECURSIVE TimeOfFrom(_, _, _)
TimeOfFrom(ss, i, at) ==
    IF i > Len(ss) THEN 0
    ELSE (IF ss[i].isActive THEN at - ss[i].startTime ELSE ss[i].duration)
             + TimeOfFrom(ss, i + 1, at)

\* C28: for each task in the dashboard the requester's total time is the sum
\* of the durations of the requester's closed sessions in the task plus
\* now - startTime of the requester's active session.
C28_DashboardTotal ==
    last.op = "dashboard" =>
        \A t \in DOMAIN tasks :
            CreatorOrAssignee(tasks[t], last.user)
                => /\ t \in DOMAIN last.result
                   /\ last.result[t] =
                          TimeOfFrom(StartedBy(tasks[t].timeTracking, last.user), 1, now)

\* d seconds as zero-padded HH:MM:SS, for d below 100 hours.
Hms(d) ==
    LET two(n) == ToString(n \div 10) \o ToString(n % 10)
    IN  two(d \div 3600) \o ":" \o two((d \div 60) % 60) \o ":" \o two(d % 60)

\* C29: the history answered to a user lists the sessions the user started in
\* the task; a closed one is listed with duration = endTime - startTime and
\* with that duration rendered as HH:MM:SS.
C29_HistoryShowsSessions ==
    (last.op = "history" /\ last.status = 200) =>
        LET own == StartedBy(tasks[last.id].timeTracking, last.user)
        IN  /\ Len(last.result) = Len(own)
            /\ \A i \in 1..Len(own) :
                  /\ last.result[i].startTime = own[i].startTime
                  /\ ~own[i].isActive =>
                        /\ last.result[i].duration = own[i].endTime - own[i].startTime
                        /\ last.result[i].formattedDuration = Hms(last.result[i].duration)

\* C30: the listing of active sessions answers exactly the tasks visible to
\* the requester in which the requester has an active session, each with
\* now - startTime of that session.
C30_ActiveSessionsListed ==
    last.op = "activeSessions" =>
        /\ last.status = 200
        /\ last.active = {x[1] : x \in {y \in StartedActive(tasks, last.user) :
                                           CreatorOrAssignee(tasks[y[1]], last.user)}}
        /\ \A x \in StartedActive(tasks, last.user) :
              CreatorOrAssignee(tasks[x[1]], last.user)
                  => /\ x[1] \in DOMAIN last.result
                     /\ last.result[x[1]] = now - tasks[x[1]].timeTracking[x[2]].startTime

\* C31: the history answered to a user holds the sessions of the task that
\* the user started, those and no others, an active one with the duration
\* now - startTime, a closed one with its stored duration.
C31_HistoryOfRequester ==
    (last.op = "history" /\ last.status = 200) =>
        LET own == StartedBy(tasks[last.id].timeTracking, last.user)
        IN  /\ Len(last.result) = Len(own)
            /\ \A i \in 1..Len(own) :
                  /\ last.result[i].isActive = own[i].isActive
                  /\ last.result[i].duration =
                        IF own[i].isActive THEN now - own[i].startTime
                        ELSE own[i].duration

\* C32: the listing of sections answered to a user holds exactly the default
\* sections and the user's own, every default before every other, and within
\* each group the earlier created first.
C32_SectionsListed ==
    last.op = "getSections" =>
        /\ {last.result[i] : i \in 1..Len(last.result)} =
              {id \in DOMAIN sections :
                  \/ sections[id].isDefault
                  \/ "createdBy" \in DOMAIN sections[id]
                        /\ sections[id].createdBy = last.user}
        /\ \A i, j \in 1..Len(last.result) :
              i < j =>
                 /\ last.result[i] # last.result[j]
                 /\ sections[last.result[j]].isDefault => sections[last.result[i]].isDefault
                 /\ sections[last.result[i]].isDefault = sections[last.result[j]].isDefault
                       => last.result[i] < last.result[j]

\* A listing holds the five defaults and then the user's own section, which
\* was created before them, while another listing would be refused it.
C32_Witness ==
    /\ last.op = "getSections"
    /\ Len(last.result) = 6
    /\ last.result[6] < last.result[1]
    /\ ~sections[last.result[6]].isDefault

\* C33: the board projection changes no task and no section.
C33_BoardReadsOnly ==
    [][ last'.op = "getTasksBoard" =>
            /\ tasks' = tasks
            /\ sections' = sections
            /\ taskSeq' = taskSeq /\ secSeq' = secSeq ]_vars

\* A board was answered that lists a task under a section.
C33_Witness ==
    /\ last.op = "getTasksBoard"
    /\ \E c \in 1..Len(last.result) : Len(last.result[c].tasks) > 0

\* C34: the due-date label of a task on the board is "No due date" without a
\* due date, "Overdue: " and the formatted date when the due date is before
\* now, and the formatted date alone when it is now or later.
C34_DueDateLabel ==
    last.op = "getTasksBoard" =>
        \A c \in 1..Len(last.result) : \A k \in 1..Len(last.result[c].tasks) :
            LET doc == tasks[last.result[c].tasks[k]]
                label == last.result[c].dateRange[k]
            IN  /\ "dueDate" \notin DOMAIN doc => label = "No due date"
                /\ ("dueDate" \in DOMAIN doc /\ doc.dueDate < now)
                      => label = "Overdue: " \o FormattedDue(doc.dueDate)
                /\ ("dueDate" \in DOMAIN doc /\ doc.dueDate >= now)
                      => label = FormattedDue(doc.dueDate)

\* A board was answered that lists a task whose due date is now.
C34_Witness ==
    /\ last.op = "getTasksBoard"
    /\ \E c \in 1..Len(last.result) : \E k \in 1..Len(last.result[c].tasks) :
          /\ "dueDate" \in DOMAIN tasks[last.result[c].tasks[k]]
          /\ tasks[last.result[c].tasks[k]].dueDate = now
          /\ now > 0

\* The sum of the durations of the closed sessions of tt from element i on.
RECURSIVE ClosedTimeFrom(_, _)
ClosedTimeFrom(tt, i) ==
    IF i > Len(tt) THEN 0
    ELSE (IF tt[i].isActive THEN 0 ELSE tt[i].duration) + ClosedTimeFrom(tt, i + 1)

\* C35: in every reachable state each task's timeTracked is the sum of the
\* durations of the task's closed sessions.
C35_TimeTrackedIsClosedTime ==
    \A t \in DOMAIN tasks :
        TimeTrackedOf(tasks[t]) = ClosedTimeFrom(tasks[t].timeTracking, 1)

\* C36: a stop that runs alone on a task in which the requester has an active
\* session succeeds and leaves the requester without an active session in
\* that task.
C36_OwnerCanStop ==
    ( /\ RanAlone("stop")
      /\ last.id \in DOMAIN last.pre
      /\ \E x \in StartedActive(last.pre, last.user) : x[1] = last.id )
    => ( /\ last.status = 200
         /\ last.id \in DOMAIN tasks
         /\ ~\E x \in StartedActive(tasks, last.user) : x[1] = last.id )

\* C37: the save of a start on a task that already has an active session
\* stored is answered with an error and leaves the stored task as it was.
C37_SaveGuardOneActive ==
    [][ \A p \in Procs :
          ( /\ req[p].op = "start" /\ req[p].pc = "save" /\ req'[p].pc = "idle"
            /\ req[p].task \in DOMAIN tasks
            /\ CountActive(tasks[req[p].task].timeTracking) >= 1 )
          => ( last'.status >= 400 /\ tasks' = tasks ) ]_vars

\* C38: a stop that runs alone on a task in which the requester has an active
\* session closes the first such session and no other, and leaves every other
\* session of the task, the task's containerId, status and sortIndex, and
\* every other task as they were.
C38_StopFrame ==
    ( /\ RanAlone("stop")
      /\ last.id \in DOMAIN last.pre
      /\ CreatorOrAssignee(last.pre[last.id], last.user)
      /\ \E x \in StartedActive(last.pre, last.user) : x[1] = last.id )
    => LET old == last.pre[last.id]
           first == CHOOSE i \in 1..Len(old.timeTracking) :
                       /\ <<last.id, i>> \in StartedActive(last.pre, last.user)
                       /\ \A j \in 1..(i - 1) :
                             <<last.id, j>> \notin StartedActive(last.pre, last.user)
       IN  /\ DOMAIN tasks = DOMAIN last.pre
           /\ \A t \in DOMAIN tasks : t # last.id => tasks[t] = last.pre[t]
           /\ Len(tasks[last.id].timeTracking) = Len(old.timeTracking)
           /\ \A i \in 1..Len(old.timeTracking) :
                 IF i = first THEN ~tasks[last.id].timeTracking[i].isActive
                 ELSE tasks[last.id].timeTracking[i] = old.timeTracking[i]
           /\ tasks[last.id].containerId = old.containerId
           /\ tasks[last.id].status = old.status
           /\ ("sortIndex" \in DOMAIN old) => tasks[last.id].sortIndex = old.sortIndex

\* C39: a run of the seed, in whatever reachable state the process starts,
\* leaves every stored section as it was, leaves exactly one default section
\* for each of the five titles, and a second run after it inserts nothing.
C39_SeedIdempotent ==
    LET st == SeedFrom([secs |-> sections, seq |-> secSeq, ins |-> {}], 1)
    IN  /\ \A id \in DOMAIN sections : id \in DOMAIN st.secs /\ st.secs[id] = sections[id]
        /\ \A i \in 1..Len(DefaultSections) :
              Cardinality({id \in DOMAIN st.secs :
                              /\ st.secs[id].isDefault
                              /\ st.secs[id].title = DefaultSections[i].title}) = 1
        /\ SeedFrom([secs |-> st.secs, seq |-> st.seq, ins |-> {}], 1).ins = {}

====
